---------------------------- MODULE Spec2Model ----------------------------
(***************************************************************************)
(* A model of the rano compiler front end (libranoc):                      *)
(*   - syntax/tokenize.rs : Span, Span::joined, Vec<T>::span, the scanner  *)
(*   - syntax/parse       : parse, parse_name                              *)
(*   - codegen/walker     : walk_module, Walker<Expression>                *)
(* Four specifications share the variables; each drives one component and  *)
(* keeps the variables of the others at their idle values.                 *)
(***************************************************************************)
EXTENDS Integers, Sequences, FiniteSets, TLC

VARIABLES
    \* -- scanner (RanoLexer over a logos lexer) --
    src,          \* the source text, a sequence of characters
    pos,          \* logos_lexer: index of the first character not yet read (1-based)
    extras,       \* logos_lexer.extras : TokenExtras {last_linefeed, line}
    tokens,       \* the tokens next() has returned so far
    lexDone,      \* next() has returned None
    \* -- Span algebra --
    sa, sb, sc,   \* three input spans
    sres,         \* the results of the span operations applied to them
    \* -- parser --
    ptokens,      \* the token slice handed to the parser
    stmtRule,     \* parse_statement_node as a function of the cursor position
    cursor,       \* position parse_name is applied at (tokens consumed before it)
    nameOut,      \* result of parse_name
    parseOut,     \* result of parse
    \* -- codegen walker --
    nodes,        \* module.nodes
    idx,          \* number of nodes the for loop has taken
    diagnostics,  \* Context's compilation errors
    results,      \* outcome of each node taken so far
    status        \* "running" | "done" | "panicked"

vars == <<src, pos, extras, tokens, lexDone, sa, sb, sc, sres,
          ptokens, stmtRule, cursor, nameOut, parseOut,
          nodes, idx, diagnostics, results, status>>

lexVars    == <<src, pos, extras, tokens, lexDone>>
spanVars   == <<sa, sb, sc, sres>>
parseVars  == <<ptokens, stmtRule, cursor, nameOut, parseOut>>
walkVars   == <<nodes, idx, diagnostics, results, status>>

Min(a, b) == IF a <= b THEN a ELSE b
Max(a, b) == IF a >= b THEN a ELSE b

SetMax(S) == CHOOSE x \in S : \A y \in S : y <= x

SeqsUpTo(S, n) == UNION { [1..k -> S] : k \in 0..n }

IsPrefix(s, t) == Len(s) <= Len(t) /\ SubSeq(t, 1, Len(s)) = s

(***************************************************************************)
(* Span (tokenize.rs:15-41)                                                *)
(***************************************************************************)

\* usize::MAX and usize::MIN.  The model uses the largest value TLC's
\* integers hold for usize::MAX; all that the code uses of it is that it is
\* not below any offset.
USIZE_MAX == 2147483647
USIZE_MIN == 0

MkSpan(start, end, line, column, len) ==
    [start |-> start, end |-> end, line |-> line, column |-> column, len |-> len]

\* Span::EMPTY
EMPTY == MkSpan(USIZE_MAX, USIZE_MIN, 0, 0, 0)

\* A mutant of joined: line and column are taken from self.
JoinedKeepSelf(self, other) ==
    LET start == Min(self.start, other.start)
        end   == Max(self.end, other.end)
    IN  MkSpan(start, end, self.line, self.column, end - start)

\* Span::joined
joined(self, other) ==
    LET start == Min(self.start, other.start)
        end   == Max(self.end, other.end)
        len   == end - start
    IN  MkSpan(start, end, Min(self.line, other.line),
               Min(self.column, other.column), len)

\* <Vec<T> as Spanned>::span : fold from Span::EMPTY with joined
RECURSIVE FoldSpan(_, _)
FoldSpan(acc, spans) ==
    IF spans = <<>> THEN acc
    ELSE FoldSpan(joined(acc, Head(spans)), Tail(spans))

VecSpan(spans) == FoldSpan(EMPTY, spans)


(***************************************************************************)
(* Specification SpecSpan: Span::joined applied to bounded input spans     *)
(***************************************************************************)

MaxOffset == 2
MaxCoord  == 1

\* Spans with start <= end whose len is the length of their range.
SpanSet ==
    { MkSpan(q[1], q[2], q[3], q[4], q[2] - q[1]) :
        q \in { r \in (0..MaxOffset) \X (0..MaxOffset) \X (0..MaxCoord) \X (0..MaxCoord) :
                  r[1] <= r[2] } }

NoResult == [op |-> "none"]

LexIdle ==
    /\ src = <<>> /\ pos = 1 /\ extras = [last_linefeed |-> 0, line |-> 0]
    /\ tokens = <<>> /\ lexDone = FALSE
SpanIdle ==
    /\ sa = EMPTY /\ sb = EMPTY /\ sc = EMPTY /\ sres = NoResult
ParseIdle ==
    /\ ptokens = <<>> /\ stmtRule = <<>> /\ cursor = 0
    /\ nameOut = NoResult /\ parseOut = NoResult
WalkIdle ==
    /\ nodes = <<>> /\ idx = 0 /\ diagnostics = <<>> /\ results = <<>>
    /\ status = "running"

InitSpan ==
    /\ sa \in SpanSet /\ sb \in SpanSet /\ sc \in SpanSet
    /\ sres = NoResult
    /\ LexIdle /\ ParseIdle /\ WalkIdle

\* a.joined(b).joined(c) and a.joined(b.joined(c))
JoinAssoc ==
    /\ sres = NoResult
    /\ sres' = [op |-> "assoc",
                left  |-> joined(joined(sa, sb), sc),
                right |-> joined(sa, joined(sb, sc))]
    /\ UNCHANGED <<sa, sb, sc, lexVars, parseVars, walkVars>>

\* a.joined(b) and b.joined(a)
JoinComm ==
    /\ sres = NoResult
    /\ sres' = [op |-> "comm",
                left  |-> joined(sa, sb),
                right |-> joined(sb, sa)]
    /\ UNCHANGED <<sa, sb, sc, lexVars, parseVars, walkVars>>

NextSpan == JoinAssoc \/ JoinComm

SpecSpan == InitSpan /\ [][NextSpan]_vars


(***************************************************************************)
(* The scanner (tokenize.rs:70-305).  Characters are named by strings;     *)
(* offsets are byte offsets into the UTF-8 text, as logos reports them.    *)
(***************************************************************************)

\* The character class of VerticalSpace (tokenize.rs:232)
Vertical == {"LF", "VT", "FF", "CR", "NEL", "LS", "PS"}

\* The character class of HorizontalSpaces (tokenize.rs:268)
Horizontal ==
    {"TAB", "SP", "SHY", "NBSP", "OGHAM", "ENQUAD", "EMQUAD", "ENSP", "EMSP",
     "3EMSP", "4EMSP", "6EMSP", "FIGSP", "PUNCSP", "THINSP", "HAIRSP", "ZWSP",
     "LRM", "RLM", "NNBSP", "MMSP", "IDSP", "BOM"}

\* The punctuation characters excluded from identifiers (tokenize.rs:201)
Punctuation ==
    {"!", "#", "$", "%", "&", "*", "+", ",", "-", ".", "/", ":", ";", "<", "=",
     ">", "?", "@", "\\", "^", "|", "~", "(", "[", "{", ")", "]", "}"}

Digits == {"0", "1", "2", "3", "4", "5", "6", "7", "8", "9"}

\* UTF-8 length of a character: U+0080..U+07FF take two bytes, U+0800..U+FFFF three.
TwoByte == {"NEL", "SHY", "NBSP"}
Width(c) ==
    IF c \in TwoByte THEN 2
    ELSE IF c \in (Vertical \cup Horizontal) \ {"LF", "VT", "FF", "CR", "TAB", "SP"} THEN 3
    ELSE 1

\* Byte offset of the start of character i of t (of the end of t for i = Len(t)+1)
RECURSIVE ByteOff(_, _)
ByteOff(t, i) == IF i <= 1 THEN 0 ELSE ByteOff(t, i - 1) + Width(t[i - 1])

\* First and continuation characters of IdentifierIdentifier (tokenize.rs:201)
IdentStart(c) == c \notin Digits \cup Vertical \cup Horizontal \cup Punctuation
IdentCont(c)  == c \notin Vertical \cup Horizontal \cup Punctuation

\* End (exclusive character index) of the maximal run of characters of class S from p
RunEnd(t, p, S) ==
    CHOOSE e \in p..(Len(t) + 1) :
        /\ \A k \in p..(e - 1) : t[k] \in S
        /\ e = Len(t) + 1 \/ t[e] \notin S

\* A pattern's end is 0 when it does not match at p.

\* [^...][^...]*  (tokenize.rs:200-204)
IdentEnd(t, p) ==
    IF IdentStart(t[p])
    THEN CHOOSE e \in (p + 1)..(Len(t) + 1) :
            /\ \A k \in (p + 1)..(e - 1) : IdentCont(t[k])
            /\ e = Len(t) + 1 \/ ~IdentCont(t[e])
    ELSE 0

\* (""|"(\\"|[^"])*[^\\]")  (tokenize.rs:211): the longest e such that t[p..e)
\* is "" or  " X c "  with c not a backslash and every quote of X escaped.
StringEnds(t, p) ==
    { e \in (p + 2)..(Len(t) + 1) :
        /\ t[p] = "\""
        /\ t[e - 1] = "\""
        /\ \/ e = p + 2
           \/ /\ e >= p + 3
              /\ t[e - 2] # "\\"
              /\ \A k \in (p + 1)..(e - 3) :
                    t[k] = "\"" => (k > p + 1 /\ t[k - 1] = "\\") }

StringEnd(t, p) == IF StringEnds(t, p) = {} THEN 0 ELSE SetMax(StringEnds(t, p))

\* '(\\'|[^']*[^\\])'  (tokenize.rs:209)
CharEnds(t, p) ==
    { e \in (p + 3)..(Len(t) + 1) :
        /\ t[p] = "'"
        /\ t[e - 1] = "'"
        /\ \/ e = p + 4 /\ t[p + 1] = "\\" /\ t[p + 2] = "'"
           \/ /\ t[e - 2] # "\\"
              /\ \A k \in (p + 1)..(e - 3) : t[k] # "'" }

CharEnd(t, p) == IF CharEnds(t, p) = {} THEN 0 ELSE SetMax(CharEnds(t, p))

\* [0-9]+ (tokenize.rs:213; the radix, decimal and exponent forms need
\* characters that are not in Alphabet and never match here)
IntegralEnd(t, p) == IF t[p] \in Digits THEN RunEnd(t, p, Digits) ELSE 0

\* The #[token] punctuation of one and two characters over Alphabet
\* (tokenize.rs:102-103, 135-136)
PunctEnd(t, p) ==
    IF t[p] \notin Punctuation THEN 0
    ELSE IF t[p] = "=" /\ p < Len(t) /\ t[p + 1] = "=" THEN p + 2
    ELSE p + 1

\* (\r\n|[\n...])  (tokenize.rs:231-233)
VerticalEnd(t, p) ==
    IF t[p] = "CR" /\ p < Len(t) /\ t[p + 1] = "LF" THEN p + 2
    ELSE IF t[p] \in Vertical THEN p + 1
    ELSE 0

\* [\t ...]+  (tokenize.rs:267-270)
HorizontalEnd(t, p) == IF t[p] \in Horizontal THEN RunEnd(t, p, Horizontal) ELSE 0

\* Every pattern that matches at p, with the end of its longest match and
\* its logos priority.  The keywords, "_", the booleans and the decimal and
\* exponent literals need characters that are not in Alphabet, and the
\* punctuation tokens of Alphabet are "=" and "==".
Candidates(t, p) ==
    { c \in { [kind |-> "Punctuation",          end |-> PunctEnd(t, p),      prio |-> 2 * (PunctEnd(t, p) - p)],
              [kind |-> "IdentifierIdentifier", end |-> IdentEnd(t, p),      prio |-> 1],
              [kind |-> "LiteralCharacter",     end |-> CharEnd(t, p),       prio |-> 5],
              [kind |-> "LiteralString",        end |-> StringEnd(t, p),     prio |-> 4],
              [kind |-> "LiteralNumberIntegral", end |-> IntegralEnd(t, p),  prio |-> 1],
              [kind |-> "VerticalSpace",        end |-> VerticalEnd(t, p),   prio |-> 2],
              [kind |-> "HorizontalSpaces",     end |-> HorizontalEnd(t, p), prio |-> 1] } :
        c.end # 0 }

\* The longest match; among equally long ones the highest priority.  With
\* no match at all: Error, over one character.
Best(t, p) ==
    IF Candidates(t, p) = {}
    THEN [kind |-> "Error", end |-> p + 1, prio |-> 0]
    ELSE CHOOSE c \in Candidates(t, p) :
            \A d \in Candidates(t, p) :
                d.end < c.end \/ (d.end = c.end /\ d.prio <= c.prio)

\* The VerticalSpace callback (tokenize.rs:234-239)
VerticalCallback(ex, spanStart, spanEnd) ==
    [line |-> ex.line + 1, last_linefeed |-> spanEnd]

\* logos Lexer::next: skipped patterns run their callback and scanning goes on.
RECURSIVE LogosNext(_, _, _)
LogosNext(t, p, ex) ==
    IF p > Len(t) THEN [some |-> FALSE, pos |-> p, extras |-> ex]
    ELSE LET m == Best(t, p) IN
         IF m.kind = "VerticalSpace"
         THEN LogosNext(t, m.end, VerticalCallback(ex, ByteOff(t, p), ByteOff(t, m.end)))
         ELSE IF m.kind = "HorizontalSpaces"
         THEN LogosNext(t, m.end, ex)
         ELSE [some |-> TRUE, kind |-> m.kind, from |-> p, pos |-> m.end, extras |-> ex]

\* A mutant of the Token built by next(): len counts one byte more.
MakeTokenLenOff(t, r) ==
    [kind |-> r.kind,
     span |-> MkSpan(ByteOff(t, r.from), ByteOff(t, r.pos), r.extras.line,
                     ByteOff(t, r.pos) - r.extras.last_linefeed,
                     ByteOff(t, r.pos) - ByteOff(t, r.from) + 1),
     content |-> SubSeq(t, r.from, r.pos - 1)]

\* The Token built by RanoLexer::next (tokenize.rs:284-293)
MakeToken(t, r) ==
    [kind |-> r.kind,
     span |-> MkSpan(ByteOff(t, r.from), ByteOff(t, r.pos), r.extras.line,
                     ByteOff(t, r.pos) - r.extras.last_linefeed,
                     ByteOff(t, r.pos) - ByteOff(t, r.from)),
     content |-> SubSeq(t, r.from, r.pos - 1)]

MaxLen == 4

Alphabet == {"a", "1", "SP", "LF", "CR", "LS", "\"", "'", "="}

InitLex ==
    /\ src \in SeqsUpTo(Alphabet, MaxLen)
    /\ pos = 1
    /\ extras = [last_linefeed |-> 0, line |-> 0]
    /\ tokens = <<>>
    /\ lexDone = FALSE
    /\ SpanIdle /\ ParseIdle /\ WalkIdle

\* RanoLexer::next (tokenize.rs:283-294)
LexerNext ==
    /\ ~lexDone
    /\ LET r == LogosNext(src, pos, extras) IN
        /\ pos' = r.pos
        /\ extras' = r.extras
        /\ IF r.some
           THEN tokens' = Append(tokens, MakeToken(src, r)) /\ lexDone' = FALSE
           ELSE tokens' = tokens /\ lexDone' = TRUE
    /\ UNCHANGED <<src, spanVars, parseVars, walkVars>>

\* Span::EMPTY joined with the span of an emitted token, on either side, and
\* the span of the one-element Vec holding that token (tokenize.rs:31-40, 57-60)
JoinEmpty ==
    /\ lexDone
    /\ sres = NoResult
    /\ \E k \in DOMAIN tokens :
        sres' = [op |-> "empty", arg |-> tokens[k].span,
                 left  |-> joined(EMPTY, tokens[k].span),
                 right |-> joined(tokens[k].span, EMPTY),
                 fold  |-> VecSpan(<<tokens[k].span>>)]
    /\ UNCHANGED <<sa, sb, sc, lexVars, parseVars, walkVars>>

NextLex == LexerNext \/ JoinEmpty

SpecLex == InitLex /\ [][NextLex]_vars


(***************************************************************************)
(* The parser (syntax/parse).  A cursor is the number of tokens consumed;  *)
(* a rule maps a cursor to Ok(advanced cursor, value) or to a non-fatal    *)
(* no-match.                                                               *)
(***************************************************************************)

\* The tokens the parser is run on
TokenSet ==
    { [kind |-> "IdentifierIdentifier",   content |-> "foo"],
      [kind |-> "IdentifierIdentifier",   content |-> "bar"],
      [kind |-> "KeywordPlaceholderName", content |-> "_"],
      [kind |-> "PunctuationSemicolon",   content |-> ";"] }

Ok(p, v)   == [ok |-> TRUE, pos |-> p, value |-> v]
NoMatchAt(p) == [ok |-> FALSE, pos |-> p, fatal |-> FALSE]

\* tag(kind): the next token, when it is of that kind
Tag(kind, toks, i) ==
    IF i < Len(toks) /\ toks[i + 1].kind = kind
    THEN Ok(i + 1, toks[i + 1])
    ELSE NoMatchAt(i)

\* parse_identifier: the text of the next token, when it is an identifier
ParseIdentifier(toks, i) ==
    IF i < Len(toks) /\ toks[i + 1].kind = "IdentifierIdentifier"
    THEN Ok(i + 1, toks[i + 1].content)
    ELSE NoMatchAt(i)

\* map(rule, f): f applied to the value of a match
Map(r, f) == IF r.ok THEN Ok(r.pos, f[r.value]) ELSE r

\* alt((first, second))
Alt(first, second) == IF first.ok THEN first ELSE second

NameIdent(text) == [name |-> "Ident", text |-> text]
NamePlaceholder == [name |-> "Placeholder"]

\* parse_name_ident (name.rs:3-5)
ParseNameIdent(toks, i) ==
    Map(ParseIdentifier(toks, i), [text \in { t.content : t \in TokenSet } |-> NameIdent(text)])

\* parse_name_placeholder (name.rs:7-11)
ParseNamePlaceholder(toks, i) ==
    Map(Tag("KeywordPlaceholderName", toks, i), [t \in TokenSet |-> NamePlaceholder])

\* A mutant of parse_name: the placeholder alternative is missing.
ParseNameIdentOnly(toks, i) == ParseNameIdent(toks, i)

\* parse_name (name.rs:13-15)
ParseName(toks, i) == Alt(ParseNameIdent(toks, i), ParseNamePlaceholder(toks, i))

\* parse_statement_node at cursor i: rule[i + 1] = 0 is a no-match, n > 0
\* consumes n tokens and yields the statement node over them.
StatementNode(rule, toks, i) ==
    IF i < Len(toks) /\ rule[i + 1] > 0
    THEN Ok(i + rule[i + 1], [node |-> "Statement", from |-> i, to |-> i + rule[i + 1]])
    ELSE NoMatchAt(i)

\* many0(parse_statement_node)
RECURSIVE Many0Statement(_, _, _, _)
Many0Statement(rule, toks, i, acc) ==
    LET r == StatementNode(rule, toks, i) IN
    IF r.ok THEN Many0Statement(rule, toks, r.pos, Append(acc, r.value))
    ELSE Ok(i, acc)

\* all_consuming(rule): the rule's result when no input remains, else a fault
AllConsuming(r, toks) ==
    IF r.ok /\ r.pos # Len(toks) THEN NoMatchAt(r.pos) ELSE r

\* A mutant of parse: the repetition's result is returned as it is.
ParseWithoutAllConsuming(rule, toks) ==
    LET r == Many0Statement(rule, toks, 0, <<>>) IN
    [op |-> "parse", ok |-> TRUE, nodes |-> r.value]

\* parse (parse/mod.rs:13-17)
Parse(rule, toks) ==
    LET i == 0
        r == AllConsuming(Many0Statement(rule, toks, i, <<>>), toks)
    IN  IF r.ok THEN [op |-> "parse", ok |-> TRUE, nodes |-> r.value]
        ELSE [op |-> "parse", ok |-> FALSE]

MaxTokens == 3

\* The statement rules over n tokens: at cursor i a rule consumes between
\* one and n - i tokens, or does not match.
RuleSet(n) == { f \in [1..n -> 0..n] : \A k \in 1..n : f[k] <= n - k + 1 }

InitParse ==
    /\ ptokens \in SeqsUpTo(TokenSet, MaxTokens)
    /\ stmtRule \in RuleSet(Len(ptokens))
    /\ cursor = 0
    /\ nameOut = NoResult
    /\ parseOut = NoResult
    /\ LexIdle /\ SpanIdle /\ WalkIdle

CallParseName ==
    /\ nameOut = NoResult
    /\ \E i \in 0..Len(ptokens) :
        /\ cursor' = i
        /\ nameOut' = [op |-> "name", result |-> ParseName(ptokens, i)]
    /\ UNCHANGED <<ptokens, stmtRule, parseOut, lexVars, spanVars, walkVars>>

CallParse ==
    /\ parseOut = NoResult
    /\ parseOut' = Parse(stmtRule, ptokens)
    /\ UNCHANGED <<ptokens, stmtRule, cursor, nameOut, lexVars, spanVars, walkVars>>

NextParse == CallParseName \/ CallParse

SpecParse == InitParse /\ [][NextParse]_vars

(***************************************************************************)
(* The codegen walker (codegen/walker).                                    *)
(***************************************************************************)

ResOk       == [tag |-> "Ok"]
ResErr(e)   == [tag |-> "Err", error |-> e]
ResTodo(m)  == [tag |-> "Panic", message |-> m]

Unbuilt == {"Match", "Closure", "Path", "Array", "Init", "If"}

\* The walk of a Literal, Operator or Name: its result is part of the input.
WalkOwn(e) ==
    IF e.outcome = "ok" THEN ResOk
    ELSE IF e.outcome = "err" THEN ResErr([in |-> e.kind])
    ELSE ResTodo("operand")

RECURSIVE WalkExpression(_)
RECURSIVE WalkVec(_)

\* The walk of a Vec<Expression>: left to right, stopping at the first
\* child whose walk is not Ok.
WalkVec(items) ==
    IF items = <<>> THEN ResOk
    ELSE LET r == WalkExpression(Head(items)) IN
         IF r.tag = "Ok" THEN WalkVec(Tail(items)) ELSE r

\* A mutant of the expression dispatch: the Match branch is a no-op.
WalkExpressionMatchNoop(expression) ==
    IF expression.kind = "Match" THEN ResOk
    ELSE IF expression.kind \in Unbuilt THEN ResTodo(expression.kind)
    ELSE IF expression.kind = "Tuple" THEN WalkVec(expression.items)
    ELSE WalkOwn(expression)

\* <Context as Walker<Expression>>::walk (expression/mod.rs:9-32)
WalkExpression(expression) ==
    CASE expression.kind = "Match"    -> ResTodo("match is not implemented now")
      [] expression.kind = "Closure"  -> ResTodo("closure is not implemented now")
      [] expression.kind = "Literal"  -> WalkOwn(expression)
      [] expression.kind = "Path"     -> ResTodo("path is not implemented now")
      [] expression.kind = "Array"    -> ResTodo("array is not implemented now")
      [] expression.kind = "Tuple"    -> WalkVec(expression.items)
      [] expression.kind = "Init"     -> ResTodo("struct/union init is not implemented now")
      [] expression.kind = "Operator" -> WalkOwn(expression)
      [] expression.kind = "Name"     -> WalkOwn(expression)
      [] expression.kind = "If"       -> ResTodo("if is not implemented now")

\* walk_statement: the walk of the statement's expression
WalkStatement(statement) == WalkExpression(statement.expr)

\* Context::add_compilation_error
AddCompilationError(diags, error) == Append(diags, error)

\* A mutant of the loop body: the first error ends the pass, as `?` would.
WalkNodeBodyStopOnError(diags, node) ==
    IF node.node = "Directive"
    THEN [diags |-> diags, result |-> ResTodo("directive is not implemented now"), go |-> "panicked"]
    ELSE LET r == WalkStatement(node) IN
         IF r.tag = "Err"
         THEN [diags |-> AddCompilationError(diags, r.error), result |-> r, go |-> "done"]
         ELSE [diags |-> diags, result |-> r,
               go |-> IF r.tag = "Panic" THEN "panicked" ELSE "running"]

\* A mutant of the loop body: the new error replaces the list.
WalkNodeBodyOverwrite(diags, node) ==
    IF node.node = "Directive"
    THEN [diags |-> diags, result |-> ResTodo("directive is not implemented now"), go |-> "panicked"]
    ELSE LET r == WalkStatement(node) IN
         IF r.tag = "Err"
         THEN [diags |-> <<r.error>>, result |-> r, go |-> "running"]
         ELSE [diags |-> diags, result |-> r,
               go |-> IF r.tag = "Panic" THEN "panicked" ELSE "running"]

\* A mutant of the loop body: a fault is recorded like an error and the
\* loop goes on.
WalkNodeBodyCatchFault(diags, node) ==
    IF node.node = "Directive"
    THEN [diags |-> diags, result |-> ResTodo("directive is not implemented now"), go |-> "panicked"]
    ELSE LET r == WalkStatement(node) IN
         IF r.tag = "Err"
         THEN [diags |-> AddCompilationError(diags, r.error), result |-> r, go |-> "running"]
         ELSE IF r.tag = "Panic"
         THEN [diags |-> AddCompilationError(diags, [in |-> node.expr.kind]), result |-> r, go |-> "running"]
         ELSE [diags |-> diags, result |-> r, go |-> "running"]

\* The body of the for loop of walk_module (module.rs:8-17)
WalkNodeBody(diags, node) ==
    IF node.node = "Directive"
    THEN [diags |-> diags, result |-> ResTodo("directive is not implemented now"), go |-> "panicked"]
    ELSE LET r == WalkStatement(node) IN
         IF r.tag = "Err"
         THEN [diags |-> AddCompilationError(diags, r.error), result |-> r, go |-> "running"]
         ELSE [diags |-> diags, result |-> r,
               go |-> IF r.tag = "Panic" THEN "panicked" ELSE "running"]

MaxNodes == 3

Leaves ==
    { [kind |-> k] : k \in Unbuilt }
    \cup { [kind |-> k, outcome |-> o] : k \in {"Literal", "Name"}, o \in {"ok", "err"} }
    \cup { [kind |-> "Operator", outcome |-> o] : o \in {"ok", "err", "panic"} }

TupleItems ==
    { [kind |-> "Literal", outcome |-> "ok"], [kind |-> "Literal", outcome |-> "err"],
      [kind |-> "Match"] }

Expressions == Leaves \cup { [kind |-> "Tuple", items |-> s] : s \in SeqsUpTo(TupleItems, 2) }

NodeSet == { [node |-> "Directive"] } \cup { [node |-> "Statement", expr |-> e] : e \in Expressions }

InitWalk ==
    /\ nodes \in SeqsUpTo(NodeSet, MaxNodes)
    /\ idx = 0
    /\ diagnostics = <<>>
    /\ results = <<>>
    /\ status = "running"
    /\ LexIdle /\ SpanIdle /\ ParseIdle

\* One iteration of the for loop of walk_module (module.rs:7-18)
WalkNode ==
    /\ status = "running"
    /\ idx < Len(nodes)
    /\ LET b == WalkNodeBody(diagnostics, nodes[idx + 1]) IN
        /\ diagnostics' = b.diags
        /\ results' = Append(results, b.result)
        /\ status' = b.go
    /\ idx' = idx + 1
    /\ UNCHANGED <<nodes, lexVars, spanVars, parseVars>>

\* The loop is exhausted and walk_module returns (module.rs:19)
WalkReturn ==
    /\ status = "running"
    /\ idx = Len(nodes)
    /\ status' = "done"
    /\ UNCHANGED <<nodes, idx, diagnostics, results, lexVars, spanVars, parseVars>>

NextWalk == WalkNode \/ WalkReturn

SpecWalk == InitWalk /\ [][NextWalk]_vars


(***************************************************************************)
(* Properties of the walker, under SpecWalk                                *)
(***************************************************************************)

OnlyStatements == \A n \in DOMAIN nodes : nodes[n].node = "Statement"

ErrCount(rs) == Cardinality({ k \in DOMAIN rs : rs[k].tag = "Err" })

\* The errors of the results that are Err, in order
RECURSIVE ErrorsOf(_)
ErrorsOf(rs) ==
    IF rs = <<>> THEN <<>>
    ELSE IF Head(rs).tag = "Err" THEN <<Head(rs).error>> \o ErrorsOf(Tail(rs))
    ELSE ErrorsOf(Tail(rs))

HasFault(rs) == \E k \in DOMAIN rs : rs[k].tag = "Panic"

\* C1 as stated: in a module of Statement nodes only, once the pass is over
\* every statement after one whose walk returned an error has been walked,
\* and there are as many diagnostics as statements whose walk returned an error.
C1_Original ==
    (OnlyStatements /\ status # "running") =>
        /\ \A k \in DOMAIN results :
              results[k].tag = "Err" => Len(results) = Len(nodes)
        /\ Len(diagnostics) = ErrCount(results)

\* C1 (amended): in a module of Statement nodes only, an error result never
\* ends the pass: after a statement whose walk returned an error the loop is
\* still running unless that was the last statement; the pass ends early
\* only with the implementation-incomplete fault of the last statement
\* walked; without such a fault every statement is walked; and at every
\* step there are as many diagnostics as walked statements whose walk
\* returned an error.
C1_Tolerance ==
    OnlyStatements =>
        /\ Len(diagnostics) = ErrCount(results)
        /\ Len(results) = idx
        /\ \A k \in DOMAIN results :
              (results[k].tag = "Err" /\ k = Len(results) /\ k < Len(nodes))
                  => status = "running"
        /\ status = "panicked" => results[Len(results)].tag = "Panic"
        /\ (status # "running" /\ ~HasFault(results)) => Len(results) = Len(nodes)
        /\ \A k \in DOMAIN results : results[k].tag = "Panic" => k = Len(results)

C1_Witness ==
    /\ OnlyStatements /\ status = "done" /\ Len(nodes) >= 3
    /\ results[1].tag = "Err" /\ results[2].tag = "Err" /\ results[3].tag = "Ok"
    /\ Len(diagnostics) = 2

IsUnbuiltThenLiteral ==
    /\ Len(nodes) = 2
    /\ nodes[1].node = "Statement" /\ nodes[1].expr.kind \in Unbuilt
    /\ nodes[2] = [node |-> "Statement", expr |-> [kind |-> "Literal", outcome |-> "ok"]]

\* C2 as stated: for an unimplemented expression statement followed by a
\* valid literal statement, the pass records the fault of the first and
\* walks the second successfully.
C2_Original ==
    (IsUnbuiltThenLiteral /\ status # "running") =>
        /\ results[1].tag = "Panic" \/ Len(diagnostics) = 1
        /\ Len(results) = 2
        /\ results[2].tag = "Ok"

\* C2 (amended): for an unimplemented expression statement followed by a
\* valid literal statement, walking the first raises the
\* implementation-incomplete fault, which ends the pass there: nothing is
\* appended to the Context and the second statement is never walked.
C2_FaultEndsPass ==
    (IsUnbuiltThenLiteral /\ idx >= 1) =>
        /\ status = "panicked"
        /\ idx = 1
        /\ Len(results) = 1 /\ results[1].tag = "Panic"
        /\ diagnostics = <<>>

C2_Witness ==
    IsUnbuiltThenLiteral /\ status = "panicked" /\ nodes[1].expr.kind = "Closure"

\* C3: the diagnostic list only grows by appending: each step keeps the
\* previous list as a prefix, the list is always the errors of the failing
\* statements in statement order, and the step that raises the fatal fault
\* leaves the list as it was.
C3_AppendOnly ==
    [][ /\ IsPrefix(diagnostics, diagnostics')
        /\ diagnostics' = ErrorsOf(results')
        /\ status' = "panicked" =>
              /\ diagnostics' = diagnostics
              /\ diagnostics' = ErrorsOf(SubSeq(results', 1, Len(results') - 1)) ]_vars

C3_Witness ==
    /\ status = "panicked" /\ Len(results) = 3
    /\ diagnostics = <<[in |-> "Name"], [in |-> "Literal"]>>

IsUnbuiltNode(n) == n.node = "Directive" \/ n.expr.kind \in Unbuilt

ItemOk(e) == e.kind \notin Unbuilt /\ e.outcome = "ok"

\* C4: a Directive node or a Match, Closure, Path, Array, Init or If
\* expression always raises the fault: its result is never Ok nor Err, it is
\* the last node the pass takes, and nothing is appended for it; a Literal,
\* Operator or Name expression gets the result of its own walk and a Tuple
\* that of the walk of its items; no diagnostic is a fault.
C4_UnbuiltIsFatal ==
    /\ \A k \in DOMAIN results :
        /\ IsUnbuiltNode(nodes[k]) =>
              /\ results[k].tag = "Panic"
              /\ k = Len(results)
              /\ status = "panicked"
              /\ diagnostics = ErrorsOf(SubSeq(results, 1, k - 1))
        /\ (~IsUnbuiltNode(nodes[k]) /\ nodes[k].expr.kind \in {"Literal", "Operator", "Name"}) =>
              results[k] = WalkOwn(nodes[k].expr)
        /\ (~IsUnbuiltNode(nodes[k]) /\ nodes[k].expr.kind = "Tuple") =>
              /\ results[k].tag = "Ok" <=>
                    \A j \in DOMAIN nodes[k].expr.items : ItemOk(nodes[k].expr.items[j])
              /\ results[k].tag = "Panic" <=>
                    \E j \in DOMAIN nodes[k].expr.items :
                        /\ nodes[k].expr.items[j].kind \in Unbuilt
                        /\ \A i \in 1..(j - 1) : ItemOk(nodes[k].expr.items[i])
    /\ \A d \in DOMAIN diagnostics : DOMAIN diagnostics[d] = {"in"}

C4_Witness ==
    /\ status = "panicked" /\ Len(results) = 2 /\ Len(nodes) = 3
    /\ nodes[2] = [node |-> "Statement", expr |-> [kind |-> "Match"]]
    /\ Len(diagnostics) = 1


(***************************************************************************)
(* Properties of the parser, under SpecParse                               *)
(***************************************************************************)

\* Where the repetition of the statement rule stops, starting at cursor p
RECURSIVE StopFrom(_)
StopFrom(p) ==
    IF p = Len(ptokens) \/ stmtRule[p + 1] = 0 THEN p
    ELSE StopFrom(p + stmtRule[p + 1])

\* C5: parse returns nodes only when the repetition of the statement rule
\* from the first token stops at the end of the tokens, and then the nodes
\* are the statements matched, in source order, each starting where the
\* previous one ends; when it stops with a token left, parse returns a
\* fault and no nodes; the empty token sequence parses to no nodes.
C5_AllConsumed ==
    parseOut.op = "parse" =>
        /\ parseOut.ok <=> StopFrom(0) = Len(ptokens)
        /\ parseOut.ok =>
              /\ \A j \in DOMAIN parseOut.nodes :
                    /\ parseOut.nodes[j].from = (IF j = 1 THEN 0 ELSE parseOut.nodes[j - 1].to)
                    /\ parseOut.nodes[j].to = parseOut.nodes[j].from + stmtRule[parseOut.nodes[j].from + 1]
                    /\ parseOut.nodes[j].to > parseOut.nodes[j].from
              /\ IF parseOut.nodes = <<>> THEN Len(ptokens) = 0 \/ stmtRule[1] = 0
                 ELSE parseOut.nodes[Len(parseOut.nodes)].to = Len(ptokens)
        /\ ~parseOut.ok => "nodes" \notin DOMAIN parseOut
        /\ ptokens = <<>> => (parseOut.ok /\ parseOut.nodes = <<>>)

C5_Witness ==
    /\ parseOut.op = "parse" /\ ~parseOut.ok
    /\ Len(ptokens) = 3 /\ stmtRule[1] = 2 /\ stmtRule[3] = 0

\* C9: parse_name decides on the next token alone: a placeholder keyword
\* gives Name::Placeholder, an identifier gives Name::Ident with the
\* token's text, both one token further; any other token, or the end of the
\* input, gives a non-fatal no-match with the cursor where it was.
C9_ParseName ==
    nameOut.op = "name" =>
        IF cursor < Len(ptokens) /\ ptokens[cursor + 1].kind = "KeywordPlaceholderName"
        THEN nameOut.result = [ok |-> TRUE, pos |-> cursor + 1, value |-> [name |-> "Placeholder"]]
        ELSE IF cursor < Len(ptokens) /\ ptokens[cursor + 1].kind = "IdentifierIdentifier"
        THEN nameOut.result = [ok |-> TRUE, pos |-> cursor + 1,
                               value |-> [name |-> "Ident", text |-> ptokens[cursor + 1].content]]
        ELSE /\ ~nameOut.result.ok
             /\ ~nameOut.result.fatal
             /\ nameOut.result.pos = cursor

C9_Witness ==
    /\ nameOut.op = "name" /\ cursor = 1 /\ Len(ptokens) = 3
    /\ ptokens[2].kind = "KeywordPlaceholderName"
    /\ nameOut.result.ok /\ nameOut.result.value = [name |-> "Placeholder"]

(***************************************************************************)
(* Properties of Span::joined, under SpecSpan                              *)
(***************************************************************************)

Min3(a, b, c) == Min(a, Min(b, c))
Max3(a, b, c) == Max(a, Max(b, c))

\* C7: for spans with start <= end, joining is associative and commutative,
\* and the result has the range [least start, greatest end), the length of
\* that range as len, the least line and the least column.
C7_JoinAssocComm ==
    /\ sres.op = "assoc" =>
          /\ sres.left = sres.right
          /\ sres.left = MkSpan(Min3(sa.start, sb.start, sc.start),
                                Max3(sa.end, sb.end, sc.end),
                                Min3(sa.line, sb.line, sc.line),
                                Min3(sa.column, sb.column, sc.column),
                                Max3(sa.end, sb.end, sc.end) - Min3(sa.start, sb.start, sc.start))
    /\ sres.op = "comm" =>
          /\ sres.left = sres.right
          /\ sres.left = MkSpan(Min(sa.start, sb.start), Max(sa.end, sb.end),
                                Min(sa.line, sb.line), Min(sa.column, sb.column),
                                Max(sa.end, sb.end) - Min(sa.start, sb.start))

C7_Witness ==
    /\ sres.op = "assoc"
    /\ sa.start > sc.end /\ sb.end < sa.start
    /\ sa.line > sb.line /\ sc.column < sa.column
    /\ sres.left.len = sa.end - sc.start

(***************************************************************************)
(* Properties of the scanner, under SpecLex                                *)
(***************************************************************************)

\* C6 as stated: joining Span::EMPTY with the span of an emitted token, on
\* either side, gives that span in all four fields, and so does the span of
\* the one-element sequence holding the token.
C6_JoinEmptyIdentity ==
    sres.op = "empty" =>
        /\ sres.left = sres.arg
        /\ sres.right = sres.arg
        /\ sres.fold = sres.arg

\* C8: adjacent emitted tokens do not overlap and are in source order, and
\* each token's len is the length of its range.
C8_TokensOrdered ==
    /\ \A k \in DOMAIN tokens :
          /\ tokens[k].span.len = tokens[k].span.end - tokens[k].span.start
          /\ tokens[k].span.start < tokens[k].span.end
    /\ \A k \in 1..(Len(tokens) - 1) :
          tokens[k].span.end <= tokens[k + 1].span.start

C8_Witness ==
    /\ Len(tokens) = 3
    /\ tokens[1].span.end < tokens[2].span.start
    /\ tokens[2].span.end = tokens[3].span.start

\* The line breaks of a text, by the index of their first character; a CR LF
\* pair is one line break.
BreakStarts(t) ==
    { j \in DOMAIN t : t[j] \in Vertical /\ ~(t[j] = "LF" /\ j > 1 /\ t[j - 1] = "CR") }

BreakEndOff(t, j) ==
    IF t[j] = "CR" /\ j < Len(t) /\ t[j + 1] = "LF" THEN ByteOff(t, j + 2) ELSE ByteOff(t, j + 1)

\* The line breaks that start before byte offset off
BreaksBefore(t, off) == { j \in BreakStarts(t) : ByteOff(t, j) < off }

LastBreakEnd(t, off) ==
    IF BreaksBefore(t, off) = {} THEN 0
    ELSE BreakEndOff(t, SetMax(BreaksBefore(t, off)))

\* C10 as stated: each token's line is the number of line breaks of the
\* source before it, its column is its end offset less the end offset of
\* the last line break before it, and once the text is scanned the line
\* counter is the number of line breaks of the text.
C10_LineColumn ==
    /\ \A k \in DOMAIN tokens :
          /\ tokens[k].span.line = Cardinality(BreaksBefore(src, tokens[k].span.start))
          /\ tokens[k].span.column = tokens[k].span.end - LastBreakEnd(src, tokens[k].span.start)
    /\ lexDone => extras.line = Cardinality(BreakStarts(src))

=============================================================================
